---- MODULE Spec2Model ----
\* Qubit lineage entities and the operation builders of RustQIP
\* (src/src/qubits.rs): index allocation, identity allocation, merge, split
\* and the matrix / swap / function operators, on the unconditioned builder
\* and on conditioned builders stacked on it.
\* Beside them the qubit handles of qubits.rs and the bit utilities of
\* src/src/qip/utils.rs, each run by a specification of its own.
EXTENDS Integers, Sequences, FiniteSets, TLC

\* ---------------------------------------------------------------- bounds
\* Absolute indices the builder may hand out in one run.
MaxIndex == 2
\* Operations are started only while the identity cursor is below this.
MaxOpId == 3
\* Longest index selection passed to a split.
MaxSel == 2
\* Most index groups passed to split_absolute_many.
MaxGroups == 1
\* Deepest stack of conditioned builders.
MaxDepth == 1
\* Bits of a word: u64 arithmetic scaled down to this width.
WordBits == 3
\* Most handles a caller takes in one run.
MaxHandles == 1

\* ---------------------------------------------------------------- vectors
ToSet(s) == {s[i] : i \in 1..Len(s)}

\* Vec::contains
Contains(s, x) == \E i \in 1..Len(s) : s[i] = x

\* Iterator::filter(|x| !selected.contains(x)).collect()
RECURSIVE FilterOut(_, _)
FilterOut(s, sel) ==
    IF s = <<>> THEN <<>>
    ELSE IF Contains(sel, Head(s)) THEN FilterOut(Tail(s), sel)
         ELSE <<Head(s)>> \o FilterOut(Tail(s), sel)

\* Vec::extend over every qubit of a list, in list order
RECURSIVE ConcatIndices(_)
ConcatIndices(qs) ==
    IF qs = <<>> THEN <<>>
    ELSE Head(qs).indices \o ConcatIndices(Tail(qs))

RECURSIVE InsertSorted(_, _)
InsertSorted(x, s) ==
    IF s = <<>> THEN <<x>>
    ELSE IF x <= Head(s) THEN <<x>> \o s
         ELSE <<Head(s)>> \o InsertSorted(x, Tail(s))

\* Vec::sort on u64: ascending, duplicates kept
RECURSIVE Sort(_)
Sort(s) == IF s = <<>> THEN <<>> ELSE InsertSorted(Head(s), Sort(Tail(s)))

\* (base..end).collect()
RangeVec(base, end) == [i \in 1..(end - base) |-> base + i - 1]

\* 1 << k
Shl1(k) == 2 ^ k

\* ---------------------------------------------------------------- lineage
\* Option<Parent>: None | Owned(children, modifier) | Shared(parent)
NoParent == [kind |-> "None", of |-> <<>>, modifier |-> [kind |-> "None"]]

Owned(qs, modifier) ==
    [kind |-> "Owned", of |-> [i \in 1..Len(qs) |-> qs[i].id], modifier |-> modifier]

Shared(q) == [kind |-> "Shared", of |-> <<q.id>>, modifier |-> [kind |-> "None"]]

\* Option<StateModifier>::None
None == [kind |-> "None"]

\* struct Qubit
MkQubit(id, indices, parent) == [id |-> id, indices |-> indices, parent |-> parent]

\* Qubit::new
Qubit_new(id, indices) ==
    IF indices = <<>>
    THEN [st |-> "err", out |-> <<>>]
    ELSE [st |-> "ok", out |-> <<MkQubit(id, indices, NoParent)>>]

\* Qubit::merge_with_modifier
Qubit_merge_with_modifier(id, qubits, modifier) ==
    MkQubit(id, Sort(ConcatIndices(qubits)), Owned(qubits, modifier))

\* Qubit::split_absolute, the remainder taken as the whole parent
Qubit_split_absolute_keep(ida, idb, q, selected_indices) ==
    IF Len(selected_indices) = Len(q.indices) THEN [st |-> "err", out |-> <<>>]
    ELSE IF selected_indices = <<>> THEN [st |-> "err", out |-> <<>>]
    ELSE IF \E i \in 1..Len(selected_indices) : ~Contains(q.indices, selected_indices[i])
         THEN [st |-> "err", out |-> <<>>]
    ELSE [st |-> "ok",
          out |-> << MkQubit(ida, selected_indices, Shared(q)),
                     MkQubit(idb, q.indices, Shared(q)) >>]

\* Qubit::split_absolute
Qubit_split_absolute(ida, idb, q, selected_indices) ==
    IF Len(selected_indices) = Len(q.indices) THEN [st |-> "err", out |-> <<>>]
    ELSE IF selected_indices = <<>> THEN [st |-> "err", out |-> <<>>]
    ELSE IF \E i \in 1..Len(selected_indices) : ~Contains(q.indices, selected_indices[i])
         THEN [st |-> "err", out |-> <<>>]
    ELSE [st |-> "ok",
          out |-> << MkQubit(ida, selected_indices, Shared(q)),
                     MkQubit(idb, FilterOut(q.indices, selected_indices), Shared(q)) >>]

\* Qubit::split; relative positions are 0-based, q.indices[i] aborts when i
\* is not below the length
Qubit_split(ida, idb, q, indices) ==
    IF \E i \in 1..Len(indices) : indices[i] > Len(q.indices)
    THEN [st |-> "err", out |-> <<>>]
    ELSE IF Len(indices) = Len(q.indices) THEN [st |-> "err", out |-> <<>>]
    ELSE IF indices = <<>> THEN [st |-> "err", out |-> <<>>]
    ELSE IF \E i \in 1..Len(indices) : indices[i] >= Len(q.indices)
         THEN [st |-> "panic", out |-> <<>>]
    ELSE Qubit_split_absolute(ida, idb, q,
             [i \in 1..Len(indices) |-> q.indices[indices[i] + 1]])

\* ---------------------------------------------------------------- handles
\* Qubit::handle: a QubitHandle holds a copy of the indices
Qubit_handle(q) == [indices |-> q.indices]

\* QubitHandle::make_init_from_index, the bound itself let through
make_init_from_index_upto(h, index) ==
    IF index <= Shl1(Len(h.indices))
    THEN [st |-> "ok",
          val |-> <<[indices |-> h.indices,
                     init |-> [kind |-> "Index", index |-> index]]>>]
    ELSE [st |-> "err", val |-> <<>>]

\* QubitHandle::make_init_from_index
make_init_from_index(h, index) ==
    IF index < Shl1(Len(h.indices))
    THEN [st |-> "ok",
          val |-> <<[indices |-> h.indices,
                     init |-> [kind |-> "Index", index |-> index]]>>]
    ELSE [st |-> "err", val |-> <<>>]

\* QubitHandle::make_init_from_state; the state is kept as its length
make_init_from_state(h, len) ==
    IF len = Shl1(Len(h.indices))
    THEN [st |-> "ok",
          val |-> <<[indices |-> h.indices,
                     init |-> [kind |-> "FullState", len |-> len]]>>]
    ELSE [st |-> "err", val |-> <<>>]

\* ---------------------------------------------------------------- descriptors
\* Option<QubitOp>::None
NoOp == [type |-> "None"]

\* QubitOp::Matrix(indices, data); data is kept as its length
MatrixOp(indices, len) == [type |-> "Matrix", indices |-> indices, len |-> len]

\* QubitOp::Swap(a_indices, b_indices)
SwapOp(a, b) == [type |-> "Swap", a |-> a, b |-> b]

\* QubitOp::Function(in_indices, out_indices, f)
FunctionOp(a, b) == [type |-> "Function", a |-> a, b |-> b]

\* make_control_op, the control dropped
make_control_op_bare(cs, op) == op

\* make_control_op(c_indices, op)
make_control_op(cs, op) == [type |-> "Control", cs |-> cs, child |-> op]

\* the panic! arm of the make_*_op matches of the conditioned builder
PanicOp == [type |-> "Panic"]

\* ---------------------------------------------------------------- builders
\* The builders as one record m: the two cursors of OpBuilder, the control
\* slot of every conditioned builder stacked on it (outermost first, each an
\* Option holding nothing or one qubit), and the qubits built by the running
\* call. A call yields [m, st, out, val]: st is "ok", "err" (an Err result)
\* or "panic" (the call aborted), out the qubits it returns, val the number
\* it returns beside them, if it returns one.
Ok(m, out) == [m |-> m, st |-> "ok", out |-> out, val |-> <<>>]
Err(m) == [m |-> m, st |-> "err", out |-> <<>>, val |-> <<>>]
Panic(m) == [m |-> m, st |-> "panic", out |-> <<>>, val |-> <<>>]

\* (q, id)
OkWith(m, out, val) == [m |-> m, st |-> "ok", out |-> out, val |-> <<val>>]

\* Result::unwrap
Unwrap(r) == IF r.st = "ok" THEN r ELSE Panic(r.m)

Made(m, qs) == [m EXCEPT !.made = @ \o qs]

\* OpBuilder::get_op_id, handing out the same id again
get_op_id_stuck(m) == m

\* OpBuilder::get_op_id: the id handed out is m.op_id
get_op_id(m) == [m EXCEPT !.op_id = @ + 1]

\* OpBuilder::qubit, the range started at zero every time
OB_qubit_from_zero(m, n) ==
    IF n = 0 THEN Err(m)
    ELSE LET m1 == [m EXCEPT !.qubit_index = @ + n]
             m2 == get_op_id(m1)
             r  == Qubit_new(m1.op_id, RangeVec(0, n))
         IN  IF r.st = "ok" THEN Ok(Made(m2, r.out), r.out) ELSE Err(m2)

\* OpBuilder::qubit
OB_qubit(m, n) ==
    IF n = 0 THEN Err(m)
    ELSE LET base_index == m.qubit_index
             m1 == [m EXCEPT !.qubit_index = @ + n]
             m2 == get_op_id(m1)
             r  == Qubit_new(m1.op_id, RangeVec(base_index, m1.qubit_index))
         IN  IF r.st = "ok" THEN Ok(Made(m2, r.out), r.out) ELSE Err(m2)

\* OpBuilder::split_absolute: both ids are taken before the split is tried
OB_split_absolute(m, q, selected_indices) ==
    LET m1 == get_op_id(m)
        m2 == get_op_id(m1)
        r  == Qubit_split_absolute(m.op_id, m1.op_id, q, selected_indices)
    IN  IF r.st = "ok" THEN Ok(Made(m2, r.out), r.out) ELSE Err(m2)

\* OpBuilder::merge_with_op
OB_merge_with_op(m, qs, op) ==
    LET modifier == IF op.type = "None" THEN None
                    ELSE [kind |-> "unitary", op |-> op]
        q == Qubit_merge_with_modifier(m.op_id, qs, modifier)
    IN  Ok(Made(get_op_id(m), <<q>>), <<q>>)

\* OpBuilder::measure, the handle one past the id of the marker
OB_measure_next(m, q) ==
    LET id == m.op_id
        modifier == [kind |-> "measure", id |-> id, indices |-> q.indices]
        q2 == Qubit_merge_with_modifier(id, <<q>>, modifier)
    IN  OkWith(Made(get_op_id(m), <<q2>>), <<q2>>, id + 1)

\* OpBuilder::measure
OB_measure(m, q) ==
    LET id == m.op_id
        modifier == [kind |-> "measure", id |-> id, indices |-> q.indices]
        q2 == Qubit_merge_with_modifier(id, <<q>>, modifier)
    IN  OkWith(Made(get_op_id(m), <<q2>>), <<q2>>, id)

\* OpBuilder::stochastic_measure
OB_stochastic_measure(m, q) ==
    LET id == m.op_id
        modifier == [kind |-> "stochastic", id |-> id, indices |-> q.indices]
        q2 == Qubit_merge_with_modifier(id, <<q>>, modifier)
    IN  OkWith(Made(get_op_id(m), <<q2>>), <<q2>>, id)

\* split_absolute of the builder at depth d of the stack (0 is the OpBuilder):
\* a conditioned builder hands the call to its parent
RECURSIVE split_absolute(_, _, _, _)
split_absolute(d, m, q, selected_indices) ==
    IF d = 0 THEN OB_split_absolute(m, q, selected_indices)
    ELSE split_absolute(d - 1, m, q, selected_indices)

\* merge_with_op of the builder at depth d
RECURSIVE merge_with_op(_, _, _, _)
merge_with_op(d, m, qs, op) ==
    IF d = 0 THEN OB_merge_with_op(m, qs, op)
    ELSE merge_with_op(d - 1, m, qs, op)

\* stochastic_measure of the builder at depth d
RECURSIVE stochastic_measure(_, _, _)
stochastic_measure(d, m, q) ==
    IF d = 0 THEN OB_stochastic_measure(m, q)
    ELSE stochastic_measure(d - 1, m, q)

\* make_mat_op of a conditioned builder that asks the OpBuilder, not its
\* parent, for the descriptor to wrap
make_mat_op_flat(d, m, q, len) ==
    IF d = 0 THEN MatrixOp(q.indices, len)
    ELSE IF m.ctx[d] = <<>> THEN PanicOp
    ELSE make_control_op(m.ctx[d][1].indices, MatrixOp(q.indices, len))

\* make_mat_op of the builder at depth d: a conditioned builder wraps its
\* parent's descriptor in a Control on its own control qubit
RECURSIVE make_mat_op(_, _, _, _)
make_mat_op(d, m, q, len) ==
    IF d = 0 THEN MatrixOp(q.indices, len)
    ELSE IF m.ctx[d] = <<>> THEN PanicOp
    ELSE LET op == make_mat_op(d - 1, m, q, len)
         IN  IF op.type = "Panic" THEN PanicOp
             ELSE make_control_op(m.ctx[d][1].indices, op)

\* make_swap_op of the builder at depth d
RECURSIVE make_swap_op(_, _, _, _)
make_swap_op(d, m, qa, qb) ==
    IF d = 0
    THEN IF Len(qa.indices) = Len(qb.indices)
         THEN SwapOp(qa.indices, qb.indices)
         ELSE [type |-> "Err"]
    ELSE IF m.ctx[d] = <<>> THEN PanicOp
    ELSE LET op == make_swap_op(d - 1, m, qa, qb)
         IN  IF op.type \in {"Panic", "Err"} THEN op
             ELSE make_control_op(m.ctx[d][1].indices, op)

\* make_function_op of the builder at depth d
RECURSIVE make_function_op(_, _, _, _)
make_function_op(d, m, q_in, q_out) ==
    IF d = 0 THEN FunctionOp(q_in.indices, q_out.indices)
    ELSE IF m.ctx[d] = <<>> THEN PanicOp
    ELSE LET op == make_function_op(d - 1, m, q_in, q_out)
         IN  IF op.type = "Panic" THEN PanicOp
             ELSE make_control_op(m.ctx[d][1].indices, op)

\* UnitaryBuilder::merge
merge(d, m, qs) == merge_with_op(d, m, qs, NoOp)

\* UnitaryBuilder::split
split(d, m, q, indices) ==
    IF \E i \in 1..Len(indices) : indices[i] > Len(q.indices) THEN Err(m)
    ELSE IF indices = <<>> THEN Err(m)
    ELSE IF Len(indices) = Len(q.indices) THEN Err(m)
    ELSE IF \E i \in 1..Len(indices) : indices[i] >= Len(q.indices) THEN Panic(m)
    ELSE split_absolute(d, m, q,
             [i \in 1..Len(indices) |-> q.indices[indices[i] + 1]])

\* UnitaryBuilder::split_absolute_many: the fold, each split unwrapped.
\* acc holds the qubits split off so far, q the remainder folded forward.
RECURSIVE split_absolute_many_fold(_, _, _, _, _)
split_absolute_many_fold(d, m, acc, q, index_groups) ==
    IF index_groups = <<>> THEN Ok(m, acc \o <<q>>)
    ELSE LET r == Unwrap(split_absolute(d, m, q, Head(index_groups)))
         IN  IF r.st # "ok" THEN r
             ELSE split_absolute_many_fold(d, r.m, Append(acc, r.out[1]),
                                           r.out[2], Tail(index_groups))

\* UnitaryBuilder::split_absolute_many; out is the split-off qubits followed
\* by the final remainder
split_absolute_many(d, m, q, index_groups) ==
    split_absolute_many_fold(d, m, <<>>, q, index_groups)

\* UnitaryBuilder::split_all
split_all(d, m, q) ==
    LET n == Len(q.indices)
        indices == [i \in 1..(IF n = 0 THEN 0 ELSE n - 1) |-> <<q.indices[i]>>]
    IN  Unwrap(split_absolute_many(d, m, q, indices))

\* ConditionalContextBuilder::get_conditional_qubit: Option::take
TakeSlot(d, m) == [m EXCEPT !.ctx[d] = <<>>]

\* set_conditional_qubit that stores nothing
set_conditional_qubit_skip(d, m, cq) == m

\* ConditionalContextBuilder::set_conditional_qubit
set_conditional_qubit(d, m, cq) == [m EXCEPT !.ctx[d] = <<cq>>]

\* The shared steps below, the operands split off in place of the control
ControlledMerge_rest(d, m, operands, op) ==
    IF op.type = "Panic" \/ m.ctx[d] = <<>> THEN Panic(m)
    ELSE LET cq == m.ctx[d][1]
             r1 == merge_with_op(d, TakeSlot(d, m), <<cq>> \o operands, op)
         IN  Unwrap(split_absolute(d, r1.m, r1.out[1], ConcatIndices(operands)))

\* The steps shared by the conditioned mat, swap and apply_function once the
\* descriptor op is built: take the control qubit, merge it with the operands
\* under op and split the control back off. out is <<control, rest>>; the
\* caller stores the control again.
ControlledMerge(d, m, operands, op) ==
    IF op.type = "Panic" \/ m.ctx[d] = <<>> THEN Panic(m)
    ELSE LET cq == m.ctx[d][1]
             cq_indices == cq.indices
             r1 == merge_with_op(d, TakeSlot(d, m), <<cq>> \o operands, op)
         IN  Unwrap(split_absolute(d, r1.m, r1.out[1], cq_indices))

\* OpBuilder::mat (d = 0) and ConditionalContextBuilder::mat (d > 0) on a
\* matrix of len coefficients
RECURSIVE mat(_, _, _, _)
RECURSIVE mat_each(_, _, _, _, _)
mat(d, m, q, len) ==
    IF Len(q.indices) > 1 /\ len = 2 * 2
    THEN LET r1 == split_all(d, m, q)
         IN  IF r1.st # "ok" THEN r1
             ELSE LET r2 == mat_each(d, r1.m, <<>>, r1.out, len)
                  IN  IF r2.st # "ok" THEN r2
                      ELSE merge_with_op(d, r2.m, r2.out, NoOp)
    ELSE LET expected_mat_size == Shl1(2 * Len(q.indices))
         IN  IF expected_mat_size # len THEN Err(m)
             ELSE IF d = 0
             THEN merge_with_op(0, m, <<q>>, make_mat_op(0, m, q, len))
             ELSE LET r == ControlledMerge(d, m, <<q>>, make_mat_op(d, m, q, len))
                  IN  IF r.st # "ok" THEN r
                      ELSE Ok(set_conditional_qubit(d, r.m, r.out[1]), <<r.out[2]>>)

\* qs.into_iter().map(|q| self.mat(q, mat).unwrap()).collect()
mat_each(d, m, acc, qs, len) ==
    IF qs = <<>> THEN Ok(m, acc)
    ELSE LET r == Unwrap(mat(d, m, Head(qs), len))
         IN  IF r.st # "ok" THEN r
             ELSE mat_each(d, r.m, Append(acc, r.out[1]), Tail(qs), len)

\* UnitaryBuilder::swap (d = 0) and ConditionalContextBuilder::swap (d > 0)
swap(d, m, qa, qb) ==
    LET op == make_swap_op(d, m, qa, qb)
        qa_indices == qa.indices
    IN  IF op.type = "Err" THEN Err(m)
        ELSE IF op.type = "Panic" THEN Panic(m)
        ELSE IF d = 0
        THEN LET r == merge_with_op(0, m, <<qa, qb>>, op)
             IN  split_absolute(0, r.m, r.out[1], qa_indices)
        ELSE LET r  == ControlledMerge(d, m, <<qa, qb>>, op)
                 r2 == Unwrap(split_absolute(d, r.m, r.out[2], qa_indices))
             IN  IF r.st # "ok" THEN r
                 ELSE IF r2.st # "ok" THEN r2
                 ELSE Ok(set_conditional_qubit(d, r2.m, r.out[1]), r2.out)

\* OpBuilder::apply_function (d = 0) and
\* ConditionalContextBuilder::apply_function (d > 0)
apply_function(d, m, q_in, q_out) ==
    LET op == make_function_op(d, m, q_in, q_out)
        in_indices == q_in.indices
    IN  IF op.type = "Panic" THEN Panic(m)
        ELSE IF d = 0
        THEN LET r == merge_with_op(0, m, <<q_in, q_out>>, op)
             IN  Unwrap(split_absolute(0, r.m, r.out[1], in_indices))
        ELSE LET r  == ControlledMerge(d, m, <<q_in, q_out>>, op)
                 r2 == Unwrap(split_absolute(d, r.m, r.out[2], in_indices))
             IN  IF r.st # "ok" THEN r
                 ELSE IF r2.st # "ok" THEN r2
                 ELSE Ok(set_conditional_qubit(d, r2.m, r.out[1]), r2.out)

\* ---------------------------------------------------------------- bit utilities
\* src/src/qip/utils.rs, on words of WordBits bits
Words == 0..(2 ^ WordBits - 1)

\* a & b
RECURSIVE BitAnd(_, _)
BitAnd(a, b) ==
    IF a = 0 \/ b = 0 THEN 0
    ELSE (a % 2) * (b % 2) + 2 * BitAnd(a \div 2, b \div 2)

\* a | b
RECURSIVE BitOr(_, _)
BitOr(a, b) ==
    IF a = 0 THEN b
    ELSE IF b = 0 THEN a
    ELSE (IF a % 2 = 1 \/ b % 2 = 1 THEN 1 ELSE 0) + 2 * BitOr(a \div 2, b \div 2)

\* !a
BitNot(a) == (2 ^ WordBits - 1) - a

\* a << k for k below the width: the bits pushed past the top are lost
Shl(a, k) == (a * 2 ^ k) % (2 ^ WordBits)

\* a >> k
Shr(a, k) == a \div (2 ^ k)

\* set_bit that ignores value and sets the bit
set_bit_always(num, bit_index, value) == BitOr(num, Shl(1, bit_index))

\* set_bit
set_bit(num, bit_index, value) ==
    LET v == Shl(1, bit_index)
    IN  IF value THEN BitOr(num, v) ELSE BitAnd(num, BitNot(v))

\* get_bit
get_bit(num, bit_index) == BitAnd(Shr(num, bit_index), 1) # 0

\* The loop of entwine_bits from round i on
RECURSIVE entwine_loop(_, _, _, _, _, _)
entwine_loop(i, n, selector, off_bits, on_bits, result) ==
    IF i >= n THEN result
    ELSE IF BitAnd(selector, 1) = 0
    THEN LET bit == BitAnd(off_bits, 1)
         IN  entwine_loop(i + 1, n, Shr(selector, 1), Shr(off_bits, 1), on_bits,
                          BitOr(result, Shl(bit, i)))
    ELSE LET bit == BitAnd(on_bits, 1)
         IN  entwine_loop(i + 1, n, Shr(selector, 1), off_bits, Shr(on_bits, 1),
                          BitOr(result, Shl(bit, i)))

\* entwine_bits with the two streams taken for each other
entwine_bits_crossed(n, selector, off_bits, on_bits) ==
    entwine_loop(0, n, selector, on_bits, off_bits, 0)

\* entwine_bits
entwine_bits(n, selector, off_bits, on_bits) ==
    entwine_loop(0, n, selector, off_bits, on_bits, 0)

\* ---------------------------------------------------------------- state
VARIABLES
    qubit_index,  \* OpBuilder.qubit_index
    op_id,        \* OpBuilder.op_id
    ctx,          \* conditioned_qubit of each conditioned builder, outermost first
    live,         \* the qubits the caller owns and has not moved into a call
    created,      \* every qubit built so far, in the order built: its id,
                  \* its indices, the kind of its parent, the kind of
                  \* modifier it was built by and the descriptor it carries
    last,         \* the last call: its operands, its result, what it built
    halted,       \* a call aborted
    given,        \* the indices of the qubit each conditioned builder was
                  \* created with, outermost first
    handles       \* the QubitHandles the caller holds, each with the id of
                  \* the qubit it was taken from

vars == <<qubit_index, op_id, ctx, live, created, last, halted, given, handles>>

\* The bounds of a run, as one record.
Small == [index |-> MaxIndex, opid |-> MaxOpId, sel |-> MaxSel,
          groups |-> MaxGroups, depth |-> MaxDepth, handles |-> MaxHandles]

\* The same bounds, each one larger.
Wide == [index |-> MaxIndex + 1, opid |-> MaxOpId + 1, sel |-> MaxSel + 1,
         groups |-> MaxGroups + 1, depth |-> MaxDepth + 1,
         handles |-> MaxHandles + 1]

\* Index selections a caller may pass to split_absolute
Sels(B) == UNION {[1..k -> 0..(B.index - 1)] : k \in 0..B.sel}

\* Relative positions a caller may pass to split
RelSels(B) == UNION {[1..k -> 0..(B.index - 1)] : k \in 0..B.sel}

\* Index groups a caller may pass to split_absolute_many
Groups(B) == UNION {[1..k -> {s \in Sels(B) : Len(s) <= 1}] : k \in 0..B.groups}

\* Matrix lengths a caller may pass to mat
MatLens == {1, 4, 16}

Depth == Len(ctx)

M == [qubit_index |-> qubit_index, op_id |-> op_id, ctx |-> ctx, made |-> <<>>]

Built(qs) ==
    [i \in 1..Len(qs) |->
        [id |-> qs[i].id, indices |-> qs[i].indices, kind |-> qs[i].parent.kind,
         by |-> qs[i].parent.modifier.kind,
         op |-> IF qs[i].parent.modifier.kind = "unitary"
                THEN qs[i].parent.modifier.op ELSE NoOp]]

\* No call yet
NoCall ==
    [op |-> "new", args |-> <<>>, sel |-> <<>>, n |-> 0, st |-> "ok",
     out |-> <<>>, made |-> <<>>, val |-> <<>>,
     pre_op_id |-> 0, pre_qubit_index |-> 0, pre_ctx |-> <<>>,
     pre_given |-> <<>>]

Init ==
    /\ qubit_index = 0
    /\ op_id = 0
    /\ ctx = <<>>
    /\ live = {}
    /\ created = <<>>
    /\ halted = FALSE
    /\ given = <<>>
    /\ handles = {}
    /\ last = NoCall

\* A call that moved the qubits args in and ended as r. The operands are
\* gone whatever the outcome; the qubits of an Ok result are the caller's.
Call(op, args, sel, n, r) ==
    /\ qubit_index' = r.m.qubit_index
    /\ op_id' = r.m.op_id
    /\ ctx' = r.m.ctx
    /\ live' = (live \ ToSet(args)) \cup (IF r.st = "ok" THEN ToSet(r.out) ELSE {})
    /\ created' = created \o Built(r.m.made)
    /\ halted' = (r.st = "panic")
    /\ given' = IF op = "with_context" THEN Append(given, args[1].indices)
                ELSE IF op = "release_qubit" THEN SubSeq(given, 1, Len(given) - 1)
                ELSE given
    /\ handles' = handles
    /\ last' = [op |-> op, args |-> args, sel |-> sel, n |-> n, st |-> r.st,
                out |-> r.out, made |-> r.m.made, val |-> r.val,
                pre_op_id |-> op_id, pre_qubit_index |-> qubit_index,
                pre_ctx |-> ctx, pre_given |-> given]

Ready(B) == ~halted /\ op_id < B.opid

\* OpBuilder::qubit; the OpBuilder is borrowed while a conditioned builder
\* stands on it
DoQubit(B) ==
    /\ Ready(B) /\ Depth = 0
    /\ \E n \in 0..B.index :
        /\ qubit_index + n <= B.index
        /\ Call("qubit", <<>>, <<>>, n, OB_qubit(M, n))

DoMerge(B) ==
    /\ Ready(B)
    /\ \/ Call("merge", <<>>, <<>>, 0, merge(Depth, M, <<>>))
       \/ \E a \in live : Call("merge", <<a>>, <<>>, 0, merge(Depth, M, <<a>>))
       \/ \E a \in live : \E b \in live \ {a} :
            Call("merge", <<a, b>>, <<>>, 0, merge(Depth, M, <<a, b>>))

DoSplit(B) ==
    /\ Ready(B)
    /\ \E q \in live, s \in RelSels(B) :
        Call("split", <<q>>, s, 0, split(Depth, M, q, s))

DoSplitAbsolute(B) ==
    /\ Ready(B)
    /\ \E q \in live, s \in Sels(B) :
        Call("split_absolute", <<q>>, s, 0, split_absolute(Depth, M, q, s))

DoSplitAbsoluteMany(B) ==
    /\ Ready(B)
    /\ \E q \in live, g \in Groups(B) :
        Call("split_absolute_many", <<q>>, g, 0, split_absolute_many(Depth, M, q, g))

DoSplitAll(B) ==
    /\ Ready(B)
    /\ \E q \in live : Call("split_all", <<q>>, <<>>, 0, split_all(Depth, M, q))

DoMat(B) ==
    /\ Ready(B)
    /\ \E q \in live, len \in MatLens :
        Call("mat", <<q>>, <<>>, len, mat(Depth, M, q, len))

DoSwap(B) ==
    /\ Ready(B)
    /\ \E a \in live : \E b \in live \ {a} :
        Call("swap", <<a, b>>, <<>>, 0, swap(Depth, M, a, b))

DoApplyFunction(B) ==
    /\ Ready(B)
    /\ \E a \in live : \E b \in live \ {a} :
        Call("apply_function", <<a, b>>, <<>>, 0, apply_function(Depth, M, a, b))

\* NonUnitaryBuilder::measure, which only the OpBuilder has
DoMeasure(B) ==
    /\ Ready(B) /\ Depth = 0
    /\ \E q \in live : Call("measure", <<q>>, <<>>, 0, OB_measure(M, q))

DoStochasticMeasure(B) ==
    /\ Ready(B)
    /\ \E q \in live :
        Call("stochastic_measure", <<q>>, <<>>, 0, stochastic_measure(Depth, M, q))

\* with_context: a conditioned builder on top of the current one, holding q
with_context(m, q) == Ok([m EXCEPT !.ctx = Append(@, <<q>>)], <<>>)

DoWithContext(B) ==
    /\ Ready(B) /\ Depth < B.depth
    /\ \E q \in live : Call("with_context", <<q>>, <<>>, 0, with_context(M, q))

\* ConditionalContextBuilder::release_qubit of the innermost builder
release_qubit(m) ==
    LET d == Len(m.ctx)
        m1 == [m EXCEPT !.ctx = SubSeq(@, 1, d - 1)]
    IN  IF m.ctx[d] = <<>> THEN Panic(m1) ELSE Ok(m1, m.ctx[d])

DoReleaseQubit ==
    /\ ~halted /\ Depth > 0
    /\ Call("release_qubit", <<>>, <<>>, 0, release_qubit(M))

Next ==
    \/ DoQubit(Small)
    \/ DoMerge(Small)
    \/ DoSplit(Small)
    \/ DoSplitAbsolute(Small)
    \/ DoSplitAbsoluteMany(Small)
    \/ DoSplitAll(Small)
    \/ DoMat(Small)
    \/ DoSwap(Small)
    \/ DoApplyFunction(Small)
    \/ DoMeasure(Small)
    \/ DoStochasticMeasure(Small)
    \/ DoWithContext(Small)
    \/ DoReleaseQubit

Spec == Init /\ [][Next]_vars

NextWide ==
    \/ DoQubit(Wide)
    \/ DoMerge(Wide)
    \/ DoSplit(Wide)
    \/ DoSplitAbsolute(Wide)
    \/ DoSplitAbsoluteMany(Wide)
    \/ DoSplitAll(Wide)
    \/ DoMat(Wide)
    \/ DoSwap(Wide)
    \/ DoApplyFunction(Wide)
    \/ DoMeasure(Wide)
    \/ DoStochasticMeasure(Wide)
    \/ DoWithContext(Wide)
    \/ DoReleaseQubit

\* The same program explored one step further in every bound.
SpecWide == Init /\ [][NextWide]_vars

\* ---------------------------------------------------------------- handles run
\* The numbers a caller may pass as an index, or as the length of a state
InitArgs(B) == 0..Shl1(B.index)

\* A call on a qubit or a handle that leaves the builders alone
Aside(op, args, n, st, val) ==
    /\ last' = [NoCall EXCEPT !.op = op, !.args = args, !.n = n, !.st = st,
                              !.val = val, !.pre_op_id = op_id,
                              !.pre_qubit_index = qubit_index,
                              !.pre_ctx = ctx, !.pre_given = given]
    /\ UNCHANGED <<qubit_index, op_id, ctx, live, created, halted, given>>

\* Qubit::handle, which borrows the qubit
DoHandle(B) ==
    /\ ~halted /\ Cardinality(handles) < B.handles
    /\ \E q \in live :
        /\ handles' = handles \cup {[h |-> Qubit_handle(q), from |-> q.id]}
        /\ Aside("handle", <<q>>, 0, "ok", <<>>)

DoMakeInitFromIndex(B) ==
    /\ ~halted
    /\ \E e \in handles, index \in InitArgs(B) :
        LET r == make_init_from_index(e.h, index)
        IN  /\ Aside("make_init_from_index", <<e>>, index, r.st, r.val)
            /\ UNCHANGED handles

DoMakeInitFromState(B) ==
    /\ ~halted
    /\ \E e \in handles, len \in InitArgs(B) :
        LET r == make_init_from_state(e.h, len)
        IN  /\ Aside("make_init_from_state", <<e>>, len, r.st, r.val)
            /\ UNCHANGED handles

\* A caller that builds qubits, takes handles of them, moves the qubits into
\* merge and measure and asks the handles for initial states.
NextHandle ==
    \/ DoQubit(Small)
    \/ DoMerge(Small)
    \/ DoMeasure(Small)
    \/ DoHandle(Small)
    \/ DoMakeInitFromIndex(Small)
    \/ DoMakeInitFromState(Small)

SpecHandle == Init /\ [][NextHandle]_vars

\* ---------------------------------------------------------------- utilities run
\* The bit utilities applied to every input of the scaled-down width. An
\* input is chosen at the start (last.args); a step applies one function to
\* it and keeps the result in last.val. No builder is involved.
BitInputs ==
    [of : {"bit"}, num : Words, bit_index : 0..(WordBits - 1), value : BOOLEAN]

EntwineInputs ==
    [of : {"entwine"}, n : 0..WordBits, selector : Words, off_bits : Words,
     on_bits : Words]

InitUtils ==
    /\ qubit_index = 0
    /\ op_id = 0
    /\ ctx = <<>>
    /\ live = {}
    /\ created = <<>>
    /\ halted = FALSE
    /\ given = <<>>
    /\ handles = {}
    /\ \E in \in BitInputs \cup EntwineInputs :
         last = [NoCall EXCEPT !.op = "input", !.args = in]

Applied(op, val) ==
    /\ last' = [last EXCEPT !.op = op, !.val = <<val>>]
    /\ UNCHANGED <<qubit_index, op_id, ctx, live, created, halted, given, handles>>

DoSetBit ==
    /\ last.op = "input" /\ last.args.of = "bit"
    /\ Applied("set_bit",
               set_bit(last.args.num, last.args.bit_index, last.args.value))

DoGetBit ==
    /\ last.op = "input" /\ last.args.of = "bit"
    /\ Applied("get_bit", get_bit(last.args.num, last.args.bit_index))

DoEntwineBits ==
    /\ last.op = "input" /\ last.args.of = "entwine"
    /\ Applied("entwine_bits",
               entwine_bits(last.args.n, last.args.selector,
                            last.args.off_bits, last.args.on_bits))

NextUtils == DoSetBit \/ DoGetBit \/ DoEntwineBits

SpecUtils == InitUtils /\ [][NextUtils]_vars

\* ---------------------------------------------------------------- properties
Disjoint(s, t) == ToSet(s) \cap ToSet(t) = {}

\* The qubits built by OpBuilder::qubit so far, oldest first
Handed == SelectSeq(created, LAMBDA e : e.kind = "None")

RECURSIVE SumLen(_, _)
SumLen(es, k) == IF k = 0 THEN 0 ELSE Len(es[k].indices) + SumLen(es, k - 1)

\* The control qubits the conditioned builders hold
Held == {ctx[d][1] : d \in {e \in 1..Len(ctx) : ctx[e] # <<>>}}

\* C1: qubit(0) fails; qubit(n) with n > 0 returns the n consecutive indices
\* starting at the number of indices handed out by the earlier successful
\* qubit calls, so the ranges of any two calls are disjoint.
C1_QubitRanges ==
    /\ last.op = "qubit" /\ last.n = 0 =>
         /\ last.st = "err"
         /\ last.made = <<>>
         /\ qubit_index = last.pre_qubit_index
    /\ last.op = "qubit" /\ last.n > 0 =>
         /\ last.st = "ok"
         /\ Len(last.out) = 1
         /\ last.out[1].indices = Handed[Len(Handed)].indices
         /\ Len(last.out[1].indices) = last.n
    /\ \A k \in 1..Len(Handed) :
         LET c == SumLen(Handed, k - 1)
             n == Len(Handed[k].indices)
         IN  /\ n > 0
             /\ \A i \in 1..n : Handed[k].indices[i] = c + i - 1
    /\ \A j, k \in 1..Len(Handed) :
         j # k => Disjoint(Handed[j].indices, Handed[k].indices)

\* A second successful qubit call, after a first one and a failed qubit(0).
C1_Witness ==
    /\ Len(Handed) >= 2
    /\ last.op = "qubit" /\ last.st = "ok"
    /\ last.pre_qubit_index > 0

\* C2: the ids of the qubits built, in the order built, strictly increase (so
\* no two are equal), whichever builder built them; a split gives the
\* selected qubit the smaller id.
C2_IdsIncrease ==
    /\ \A i, j \in 1..Len(created) : i < j => created[i].id < created[j].id
    /\ \A i \in 1..Len(created) : created[i].id < op_id
    /\ last.op \in {"split", "split_absolute"} /\ last.st = "ok" =>
         last.out[1].id < last.out[2].id

\* A conditioned builder has just built its three qubits after earlier ones.
C2_Witness ==
    /\ last.op = "mat" /\ last.st = "ok" /\ last.pre_ctx # <<>>
    /\ Len(last.made) = 3
    /\ Len(created) >= 5

\* The qubit with this id among those built
ById(id) == CHOOSE e \in ToSet(created) : e.id = id

\* The indices a split call selects: given as such, or as positions of q
Selected(op, q, sel) ==
    IF op = "split" THEN [i \in 1..Len(sel) |-> q.indices[sel[i] + 1]] ELSE sel

\* C3: the two qubits of a successful split have disjoint index sets whose
\* union is the parent's; the first holds the selected indices as given, the
\* second the parent's other indices in the parent's order. The same holds of
\* the splits a swap, apply_function or conditioned call makes.
C3_SplitPartition ==
    /\ last.op \in {"split", "split_absolute"} /\ last.st = "ok" =>
         LET p   == last.args[1]
             sel == Selected(last.op, p, last.sel)
             a   == last.out[1]
             b   == last.out[2]
         IN  /\ Len(last.out) = 2
             /\ a.indices = sel
             /\ b.indices = SelectSeq(p.indices, LAMBDA x : x \notin ToSet(sel))
             /\ Disjoint(a.indices, b.indices)
             /\ ToSet(a.indices) \cup ToSet(b.indices) = ToSet(p.indices)
    /\ \A i, j \in 1..Len(last.made) :
         LET a == last.made[i]
             b == last.made[j]
         IN  i < j /\ a.parent.kind = "Shared" /\ b.parent = a.parent =>
               /\ Disjoint(a.indices, b.indices)
               /\ ToSet(a.indices) \cup ToSet(b.indices)
                    = ToSet(ById(a.parent.of[1]).indices)

\* A relative split of a two-index qubit has succeeded.
C3_Witness ==
    /\ last.op = "split" /\ last.st = "ok"
    /\ Len(last.args[1].indices) >= 2
    /\ last.out[1].indices # <<>> /\ last.out[2].indices # <<>>

\* C4: every qubit the caller can hold (returned by a call, or kept as the
\* control of a conditioned builder) has at least one index.
C4_NonEmpty ==
    \A q \in live \cup Held \cup ToSet(last.out) : q.indices # <<>>

\* C5: split_absolute fails, building nothing, when the selection is empty,
\* names an index the parent lacks, or covers every index of the parent.
C5_SplitAbsoluteRejects ==
    last.op = "split_absolute" =>
        LET p == last.args[1]
        IN  \/ last.sel = <<>>
            \/ \E i \in 1..Len(last.sel) : last.sel[i] \notin ToSet(p.indices)
            \/ ToSet(p.indices) \subseteq ToSet(last.sel)
            => last.st = "err" /\ last.made = <<>>

\* C6: the relative split, on the builder and on Qubit, returns an error
\* when a position is not below the parent's index count.
C6_SplitRejectsOutOfRange ==
    last.op = "split" =>
        LET p == last.args[1]
        IN  (\E i \in 1..Len(last.sel) : last.sel[i] >= Len(p.indices)) =>
              /\ last.st = "err"
              /\ Qubit_split(last.pre_op_id, last.pre_op_id + 1, p, last.sel).st = "err"

IsSorted(s) == \A i \in 1..(Len(s) - 1) : s[i] <= s[i + 1]

Count(s, x) == Cardinality({i \in 1..Len(s) : s[i] = x})

\* t holds what s holds, as often
SameBag(s, t) == Len(s) = Len(t) /\ \A x \in ToSet(s) : Count(s, x) = Count(t, x)

\* The members of a set of numbers, ascending
RECURSIVE Ascending(_)
Ascending(S) ==
    IF S = {} THEN <<>>
    ELSE LET x == CHOOSE y \in S : \A z \in S : y <= z
         IN  <<x>> \o Ascending(S \ {x})

\* C7: merge yields its operands' indices, concatenated and sorted ascending;
\* merging the two qubits of a split, in either order, yields the index set
\* of the qubit that was split, ascending.
C7_SplitMergeSorted ==
    last.op = "merge" =>
        /\ last.st = "ok" /\ Len(last.out) = 1
        /\ IsSorted(last.out[1].indices)
        /\ SameBag(last.out[1].indices, ConcatIndices(last.args))
        /\ ( /\ Len(last.args) = 2
             /\ last.args[1].parent.kind = "Shared"
             /\ last.args[2].parent = last.args[1].parent )
           => last.out[1].indices
                = Ascending(ToSet(ById(last.args[1].parent.of[1]).indices))

\* C8: split_all of a qubit with n >= 1 indices returns n qubits, the k-th
\* holding the k-th index alone.
C8_SplitAllSingles ==
    last.op = "split_all" /\ Len(last.args[1].indices) >= 1 =>
        LET p == last.args[1]
        IN  /\ last.st = "ok"
            /\ Len(last.out) = Len(p.indices)
            /\ \A k \in 1..Len(last.out) :
                 k <= Len(p.indices) /\ last.out[k].indices = <<p.indices[k]>>

\* The descriptor under the Controls of d
RECURSIVE BaseOp(_)
BaseOp(d) == IF d.type = "Control" THEN BaseOp(d.child) ELSE d

\* The descriptors the last call recorded, in the order recorded
Emitted ==
    LET with == SelectSeq(last.made, LAMBDA q : q.parent.modifier.kind = "unitary")
    IN  [i \in 1..Len(with) |-> with[i].parent.modifier.op]

\* C9: outside the broadcast case, mat succeeds exactly when the matrix has
\* 4^k coefficients for the k indices of the qubit; a mismatch is an error
\* that builds nothing and moves no cursor; a success records one Matrix
\* descriptor on the qubit's indices and returns a qubit with its index set.
C9_MatSized ==
    last.op = "mat" /\ ~(Len(last.args[1].indices) > 1 /\ last.n = 4) =>
        LET p == last.args[1]
            fits == last.n = 4 ^ Len(p.indices)
        IN  /\ (last.st = "ok") <=> fits
            /\ ~fits =>
                 /\ last.st = "err"
                 /\ last.made = <<>>
                 /\ op_id = last.pre_op_id
                 /\ qubit_index = last.pre_qubit_index
            /\ last.st = "ok" =>
                 /\ Len(Emitted) = 1
                 /\ BaseOp(Emitted[1]) = MatrixOp(p.indices, last.n)
                 /\ Len(last.out) = 1
                 /\ ToSet(last.out[1].indices) = ToSet(p.indices)

\* C10: mat with a 2x2 matrix on a qubit of k > 1 indices succeeds, records k
\* Matrix descriptors of one index each, one for each index of the qubit, and
\* returns one qubit holding the qubit's index set, ascending.
C10_MatBroadcast ==
    last.op = "mat" /\ Len(last.args[1].indices) > 1 /\ last.n = 4 =>
        LET p == last.args[1]
        IN  /\ last.st = "ok"
            /\ Len(Emitted) = Len(p.indices)
            /\ \A i \in 1..Len(Emitted) :
                 /\ BaseOp(Emitted[i]).type = "Matrix"
                 /\ Len(BaseOp(Emitted[i]).indices) = 1
            /\ \A x \in ToSet(p.indices) :
                 \E i \in 1..Len(Emitted) : BaseOp(Emitted[i]).indices = <<x>>
            /\ Len(last.out) = 1
            /\ last.out[1].indices = Ascending(ToSet(p.indices))

\* C11: swap of two qubits with different index counts is an error that moves
\* no cursor and records no descriptor; with equal counts it records one Swap
\* descriptor (a's indices, b's indices) and returns two new qubits holding
\* the index sets a and b had.
C11_Swap ==
    last.op = "swap" =>
        LET a == last.args[1]
            b == last.args[2]
        IN  IF Len(a.indices) # Len(b.indices)
            THEN /\ last.st = "err"
                 /\ op_id = last.pre_op_id
                 /\ qubit_index = last.pre_qubit_index
                 /\ last.made = <<>>
            ELSE /\ last.st = "ok"
                 /\ Len(Emitted) = 1
                 /\ BaseOp(Emitted[1]) = SwapOp(a.indices, b.indices)
                 /\ Len(last.out) = 2
                 /\ \A i \in 1..Len(last.out) : last.out[i].id >= last.pre_op_id
                 /\ Len(last.out) = 2 =>
                      /\ ToSet(last.out[1].indices) = ToSet(a.indices)
                      /\ ToSet(last.out[2].indices) = ToSet(b.indices)

PreM ==
    [qubit_index |-> last.pre_qubit_index, op_id |-> last.pre_op_id,
     ctx |-> last.pre_ctx, made |-> <<>>]

\* The last call was a mat outside the broadcast case, a swap or an
\* apply_function on a conditioned builder, and it succeeded
ConditionedOk ==
    /\ last.op \in {"mat", "swap", "apply_function"}
    /\ last.st = "ok"
    /\ Len(last.pre_ctx) >= 1
    /\ last.op = "mat" => ~(Len(last.args[1].indices) > 1 /\ last.n = 4)

\* The descriptor the builder at depth d would have made for the last call
WouldEmit(d) ==
    IF last.op = "mat" THEN make_mat_op(d, PreM, last.args[1], last.n)
    ELSE IF last.op = "swap" THEN make_swap_op(d, PreM, last.args[1], last.args[2])
    ELSE make_function_op(d, PreM, last.args[1], last.args[2])

\* The qubits the last call built that carry a descriptor
Carriers == SelectSeq(last.made, LAMBDA q : q.parent.modifier.kind = "unitary")

\* C13: a successful mat (outside the broadcast case), swap or apply_function
\* on a conditioned builder records one descriptor: a Control on the indices
\* of the control qubit the builder holds, around the descriptor the builder
\* below would have recorded. The qubit that carries it is the merge of the
\* control with the operands, and the operands come back with the index sets
\* they had.
C13_Controlled ==
    ConditionedOk =>
        LET D   == Len(last.pre_ctx)
            ctl == last.pre_ctx[D][1]
        IN  /\ Len(Emitted) = 1
            /\ Emitted[1].type = "Control"
            /\ Emitted[1].cs = ctl.indices
            /\ Emitted[1].child = WouldEmit(D - 1)
            /\ BaseOp(Emitted[1]).type
                 = (IF last.op = "mat" THEN "Matrix"
                    ELSE IF last.op = "swap" THEN "Swap" ELSE "Function")
            /\ Carriers[1].parent.of
                 = <<ctl.id>> \o [i \in 1..Len(last.args) |-> last.args[i].id]
            /\ SameBag(Carriers[1].indices,
                       ctl.indices \o ConcatIndices(last.args))
            /\ Len(last.out) = Len(last.args)
            /\ \A i \in 1..Len(last.out) :
                 ToSet(last.out[i].indices) = ToSet(last.args[i].indices)

\* A swap on a conditioned builder has succeeded.
C13_Witness ==
    /\ last.op = "swap" /\ last.st = "ok"
    /\ Len(last.pre_ctx) = 1
    /\ Emitted[1].type = "Control"
    /\ Emitted[1].child = SwapOp(last.args[1].indices, last.args[2].indices)
    /\ last.args[1].indices # <<>>

\* The descriptor of the last call as the OpBuilder makes it
Plain ==
    IF last.op = "mat" THEN MatrixOp(last.args[1].indices, last.n)
    ELSE IF last.op = "swap"
    THEN SwapOp(last.args[1].indices, last.args[2].indices)
    ELSE FunctionOp(last.args[1].indices, last.args[2].indices)

\* C14: a successful mat (outside the broadcast case), swap or apply_function
\* on a conditioned builder made on a conditioned builder records a Control
\* on the inner control's indices around a Control on the outer control's
\* indices around the plain descriptor; both builders hold their controls
\* with the index lists they had, and release_qubit, the inner builder's
\* first, hands each of them back.
C14_Nested ==
    /\ ConditionedOk /\ Len(last.pre_ctx) = 2 =>
         LET outer == last.pre_ctx[1][1]
             inner == last.pre_ctx[2][1]
         IN  /\ Len(Emitted) = 1
             /\ Emitted[1]
                  = make_control_op(inner.indices,
                        make_control_op(outer.indices, Plain))
             /\ Len(ctx) = 2
             /\ ctx[1] # <<>> /\ ctx[1][1].indices = outer.indices
             /\ ctx[2] # <<>> /\ ctx[2][1].indices = inner.indices
    /\ last.op = "release_qubit" =>
         /\ last.st = "ok"
         /\ last.out = last.pre_ctx[Len(last.pre_ctx)]
         /\ ctx = SubSeq(last.pre_ctx, 1, Len(last.pre_ctx) - 1)

\* The inner of two conditioned builders has handed back its control after
\* a call on it recorded a doubly controlled descriptor.
C14_Witness ==
    /\ last.op = "release_qubit" /\ last.st = "ok"
    /\ Len(last.pre_ctx) = 2
    /\ last.out[1].parent.kind = "Shared"
    /\ LET carrier == ById(last.out[1].parent.of[1])
       IN  /\ carrier.op.type = "Control"
           /\ carrier.op.cs = last.out[1].indices
           /\ carrier.op.child.type = "Control"
           /\ carrier.op.child.cs = ctx[1][1].indices
           /\ carrier.op.child.child.type \in {"Matrix", "Swap", "Function"}

\* C15: split_absolute_many never aborts: a group that split_absolute
\* rejects makes the call return an error. A successful call returns one
\* qubit for each group, in the order of the groups and holding the group's
\* indices, followed by the qubit that holds the indices no group named.
C15_SplitManyReports ==
    last.op = "split_absolute_many" =>
        LET p == last.args[1]
            n == Len(last.sel)
        IN  /\ last.st \in {"ok", "err"}
            /\ last.st = "ok" =>
                 /\ Len(last.out) = n + 1
                 /\ \A k \in 1..n : last.out[k].indices = last.sel[k]
                 /\ last.out[n + 1].indices
                      = SelectSeq(p.indices,
                            LAMBDA x : \A k \in 1..n : x \notin ToSet(last.sel[k]))

\* The indices a descriptor names, one entry for each mention
RECURSIVE OpIndices(_)
OpIndices(d) ==
    IF d.type = "Matrix" THEN d.indices
    ELSE IF d.type \in {"Swap", "Function"} THEN d.a \o d.b
    ELSE IF d.type = "Control" THEN d.cs \o OpIndices(d.child)
    ELSE <<>>

\* The descriptor d and the descriptors nested in it
RECURSIVE Levels(_)
Levels(d) == IF d.type = "Control" THEN {d} \cup Levels(d.child) ELSE {d}

\* C16: a recorded descriptor names no index twice: the two index lists of a
\* Swap are disjoint and equally long, and at every level of nesting the
\* control indices of a Control are disjoint from the indices of its child.
C16_IndicesOnce ==
    \A i \in 1..Len(Emitted) :
        /\ \A x \in ToSet(OpIndices(Emitted[i])) :
             Count(OpIndices(Emitted[i]), x) = 1
        /\ \A d \in Levels(Emitted[i]) :
             /\ d.type = "Swap" => Disjoint(d.a, d.b) /\ Len(d.a) = Len(d.b)
             /\ d.type = "Control" => Disjoint(d.cs, OpIndices(d.child))

\* The qubits built by measure and stochastic_measure so far
Measured == {e \in ToSet(created) : e.by \in {"measure", "stochastic"}}

\* C17: measure and stochastic_measure take one id, return one new qubit
\* whose parent is Owned, whose id is the handle returned with it and whose
\* index set is the operand's, and record a marker of the call's kind that
\* carries the handle and the operand's indices. The handles are the ids of
\* the qubits so built, of which no other qubit ever built has one.
C17_Measure ==
    /\ last.op \in {"measure", "stochastic_measure"} =>
         LET p == last.args[1]
         IN  /\ last.st = "ok"
             /\ op_id = last.pre_op_id + 1
             /\ Len(last.made) = 1 /\ last.out = last.made
             /\ Len(last.val) = 1
             /\ last.out[1].id = last.val[1]
             /\ last.out[1].parent.kind = "Owned"
             /\ last.out[1].parent.of = <<p.id>>
             /\ ToSet(last.out[1].indices) = ToSet(p.indices)
             /\ last.out[1].parent.modifier
                  = [kind |-> IF last.op = "measure" THEN "measure" ELSE "stochastic",
                     id |-> last.val[1], indices |-> p.indices]
             /\ \E e \in Measured : e.id = last.val[1]
    /\ \A e \in Measured :
         Cardinality({i \in 1..Len(created) : created[i].id = e.id}) = 1

\* A second measurement has returned its handle.
C17_Witness ==
    /\ last.op \in {"measure", "stochastic_measure"} /\ last.st = "ok"
    /\ Cardinality(Measured) >= 2
    /\ last.args[1].indices # <<>>
    /\ Len(created) >= 3

\* Bit i of x, by division
Bit(x, i) == (x \div 2 ^ i) % 2

\* C18: within the word width, get_bit reads what set_bit wrote; clearing a
\* bit that was set yields the word with that bit cleared; set_bit changes no
\* other bit.
C18_SetGetBit ==
    /\ last.op = "set_bit" =>
         LET x == last.args.num
             n == last.args.bit_index
             b == last.args.value
             r == last.val[1]
         IN  /\ r \in Words
             /\ get_bit(r, n) = b
             /\ Bit(r, n) = (IF b THEN 1 ELSE 0)
             /\ \A j \in 0..(WordBits - 1) : j # n => Bit(r, j) = Bit(x, j)
             /\ set_bit(set_bit(x, n, TRUE), n, FALSE) = x - Bit(x, n) * 2 ^ n
    /\ last.op = "get_bit" =>
         last.val[1] = (Bit(last.args.num, last.args.bit_index) = 1)

\* set_bit has cleared a bit that was set, in a word with other bits set.
C18_Witness ==
    /\ last.op = "set_bit"
    /\ ~last.args.value
    /\ Bit(last.args.num, last.args.bit_index) = 1
    /\ last.val[1] # 0
    /\ last.val[1] = last.args.num - 2 ^ last.args.bit_index

\* How many of the bits of x below position i are b
BitsBelow(x, i, b) == Cardinality({j \in 0..(i - 1) : Bit(x, j) = b})

\* C19: entwine_bits(n, selector, off_bits, on_bits) is below 2^n; its bit i
\* is the next unused bit of off_bits where bit i of selector is 0 and the
\* next unused bit of on_bits where it is 1, each stream read from its lowest
\* bit; the bits of the streams that are never read do not matter; for n = 3,
\* selector = 0b010, off_bits = 0b01, on_bits = 0b1 the result is 0b011.
C19_EntwineBits ==
    last.op = "entwine_bits" =>
        LET n   == last.args.n
            sel == last.args.selector
            off == last.args.off_bits
            on  == last.args.on_bits
            r   == last.val[1]
        IN  /\ r < 2 ^ n
            /\ \A i \in 0..(n - 1) :
                 Bit(r, i) = IF Bit(sel, i) = 0
                             THEN Bit(off, BitsBelow(sel, i, 0))
                             ELSE Bit(on, BitsBelow(sel, i, 1))
            /\ r = entwine_bits(n, sel, off % 2 ^ BitsBelow(sel, n, 0),
                                on % 2 ^ BitsBelow(sel, n, 1))
            /\ n = 3 /\ sel = 2 /\ off = 1 /\ on = 1 => r = 3

\* entwine_bits has been applied to the worked example, and to streams with
\* bits that are never read.
C19_Witness ==
    /\ last.op = "entwine_bits"
    /\ last.args.n = 3 /\ last.args.selector = 2
    /\ last.args.off_bits % 4 = 1 /\ last.args.on_bits % 2 = 1
    /\ last.args.on_bits > 1
    /\ last.val[1] = 3

\* C20: for a handle over k indices make_init_from_index(i) succeeds exactly
\* when i < 2^k and make_init_from_state(s) exactly when s has 2^k
\* amplitudes; a success carries the handle's index list and the request, a
\* failure is an error; a handle holds the indices of the qubit it was taken
\* from, whether or not that qubit has been moved into a call since.
C20_Handle ==
    /\ last.op \in {"make_init_from_index", "make_init_from_state"} =>
         LET h    == last.args[1].h
             k    == Len(h.indices)
             fits == IF last.op = "make_init_from_index"
                     THEN last.n < 2 ^ k ELSE last.n = 2 ^ k
             req  == IF last.op = "make_init_from_index"
                     THEN [kind |-> "Index", index |-> last.n]
                     ELSE [kind |-> "FullState", len |-> last.n]
         IN  /\ (last.st = "ok") <=> fits
             /\ fits => last.val = <<[indices |-> h.indices, init |-> req]>>
             /\ ~fits => last.st = "err" /\ last.val = <<>>
             /\ h.indices = ById(last.args[1].from).indices
    /\ \A e \in handles : e.h.indices = ById(e.from).indices

\* A handle has given an initial state after its qubit was moved into a call.
C20_Witness ==
    /\ last.op = "make_init_from_index" /\ last.st = "ok"
    /\ last.n > 0
    /\ last.args[1].h.indices # <<>>
    /\ \A q \in live : q.id # last.args[1].from

C22_OpWithinQubit ==
    \A i \in 1..Len(created) :
        created[i].by = "unitary" =>
            ToSet(OpIndices(created[i].op)) \subseteq ToSet(created[i].indices)

\* The qubits not yet moved into a call: the caller's and the controls the
\* conditioned builders hold
Unconsumed == live \cup Held

\* The indices qubit has handed out so far
Allocated == 0..(qubit_index - 1)

\* C23: any two qubits not yet moved into a call share no index, none of
\* them lists an index twice, and together they hold exactly the indices
\* qubit has handed out.
C23_Partition ==
    ~halted =>
        /\ \A a \in Unconsumed : \A b \in Unconsumed \ {a} :
             Disjoint(a.indices, b.indices)
        /\ \A a \in Unconsumed :
             \A x \in ToSet(a.indices) : Count(a.indices, x) = 1
        /\ UNION {ToSet(a.indices) : a \in Unconsumed} = Allocated

====
